---- MODULE Spec2Model ----
(***************************************************************************)
(* Sahayak: the chat interface with its voice capture                      *)
(* (src/src/components/ChatInterface.tsx), the quiz, the image upload and  *)
(* the visual aid generator.                                               *)
(*                                                                         *)
(* Spec        the Capture Strategy Selector with the primary              *)
(*             (react-speech-recognition) and the fallback (native         *)
(*             recognition object) adapters: handleVoiceInput,             *)
(*             startFallbackSpeechRecognition and the callbacks.           *)
(* SpecRemote  the remote transcription adapter: useAssemblyAIRecorder     *)
(*             (startRecording, stopRecording, sendToAssemblyAI).          *)
(* SpecRemoteFair  the recorder's sessions with a service that ends every  *)
(*             job it is polled for.                                       *)
(* SpecFallback  the fallback adapter with its result events and the       *)
(*             transcript effect.                                          *)
(* SpecChat    the chat: handleSendMessage and the image attachment.       *)
(* SpecKeys    the features that need an API key (chat, quiz generation    *)
(*             of QuizGame.tsx, recorder), each up to its first request.   *)
(* SpecTranscripts  both adapters with their transcripts and the effects   *)
(*             that write them into the input field.                       *)
(* SpecLocale  the voice toggle with the language selector.                *)
(* SpecQuiz    QuizGame.tsx: generateQuiz, handleAnswerSelect, resetQuiz.  *)
(* SpecUpload  ImageUpload (src/unnamed/part_001): processFiles and        *)
(*             removeFile.                                                 *)
(* SpecAid     VisualAidGenerator.tsx: generateVisualAid and its timer.    *)
(*                                                                         *)
(* Every handler runs to completion on the single event loop, so a handler *)
(* (or the continuation of a promise) is one atomic action.                *)
(***************************************************************************)
EXTENDS Integers, Sequences, FiniteSets, TLC

\* ------------------------------------------------------------------ bounds
\* native recognition objects that may be alive (not yet ended) at once
MaxRecognitions == 2
\* getUserMedia promises of handleVoiceInput that may be pending at once
MaxPending == 2
\* microphone streams handleVoiceInput acquires in one run
MaxStreams == 3
\* MediaRecorder objects that may be in use at once
MaxRecorders == 1
\* getUserMedia promises of startRecording that may be pending at once
MaxAcquiring == 1
\* dataavailable events delivered in one run
MaxChunks == 1
\* length of a text (transcript, input field)
MaxTextLen == 2
\* messages the chat holds in one run, the greeting included
MaxMessages == 3
\* FileReader reads of handleScreenshotUpload that may be pending at once
MaxImageReads == 1
\* generateContent requests of generateQuiz that may be pending at once
MaxQuizPending == 2
\* results a result event carries from its resultIndex on
MaxSegments == 2
\* questions of a generated quiz
MaxQuestions == 2
\* the highest option index of a question (options are 0..MaxOption)
MaxOption == 1
\* reveal timers of handleAnswerSelect that may be pending at once
MaxQuizTimers == 2
\* times the question at one index is scored between two resets
MaxScorings == 2
\* files one processFiles call is given
MaxBatch == 2
\* files accepted in one run
MaxFiles == 4
\* visual aids requested in one run
MaxAids == 2
\* QuizGame.tsx 142: points for a correct answer
CorrectPoints == 10
\* QuizGame.tsx 149: points taken for a wrong answer
WrongPenalty == 5

\* ------------------------------------------------------------------ state
VARIABLES
    \* environment
    browserSupportsSpeechRecognition, \* useSpeechRecognition() flag
    nativeSR,               \* window.SpeechRecognition / webkitSpeechRecognition
    micPermission,          \* the browser's microphone permission
    \* ChatInterface state
    isListening,
    isUsingFallback,
    fallbackRecognitionRef, \* 0 is null, k is the k-th native object
    \* sessions and resources
    recognitions,           \* state of every native recognition object
    pendingPermission,      \* getUserMedia promises not yet settled
    selectedLanguage,       \* useState("hi") of ChatInterface.tsx 286
    pendingLanguages,       \* per language code: the pending promises whose
                            \* callbacks were created while it was selected
    primaryListening,       \* the react-speech-recognition session is on
    liveStreams,            \* acquired MediaStreams whose tracks are live
    \* environment of the remote adapter
    mediaRecorderSupported, \* typeof MediaRecorder !== "undefined"
    assemblyApiKey,         \* VITE_ASSEMBLY_API_KEY is set
    \* useAssemblyAIRecorder state
    isRecording,
    isTranscribing,
    mediaRecorderRef,       \* 0 is null, c is the c-th MediaRecorder
    audioChunksRef,         \* sequence of buffered chunks
    inputValue,             \* the shared input field
    recorders,              \* state and clip of every MediaRecorder
    acquiring,              \* getUserMedia promises of startRecording pending
    chunksDelivered,        \* dataavailable events so far
    \* fallback transcript
    fallbackTranscript,     \* useState("") of ChatInterface.tsx 302
    deliveredFinals,        \* history: the final segments delivered since onstart
    transcript,             \* the transcript useSpeechRecognition() reports
    \* environment of the chat and the quiz
    geminiApiKey,           \* VITE_GEMINI_API_KEY is set
    lambApiKey,             \* VITE_LAMB_AI_API_KEY is set
    \* chat state
    messages,
    isLoading,
    isTTSLoading,
    uploadedImage,          \* FALSE is null, TRUE is a data URL
    chatStep,               \* the request handleSendMessage awaits
    imageReads,             \* FileReader reads not yet loaded
    \* QuizGame state
    topic,
    isGenerating,
    quizPending,            \* generateContent requests of generateQuiz pending
    questions,              \* per question its correctAnswer
    currentQuestion,
    score,
    selectedAnswer,         \* <<>> is null, <<i>> is option i
    isAnswered,
    showResults,
    quizTimers,             \* pending reveal timers, oldest first, each with
                            \* the currentQuestion and questions.length of
                            \* the render that created it
    scored,                 \* history: per question index, the outcomes it
                            \* was scored with since the last reset
    \* ImageUpload state (src/unnamed/part_001)
    uploadedFiles,          \* sequence of [id, status]
    uploadTimers,           \* pending processing timers, oldest first, each
                            \* with the id of its file
    filesCreated,           \* files accepted so far; the k-th gets id k
    removedFiles,           \* history: ids removeFile was called with
    \* VisualAidGenerator state
    generatedAids,          \* sequence of [type, title], newest first
    aidIsGenerating,        \* isGenerating of VisualAidGenerator.tsx 23
    drawingPrompt,
    chartData,
    chartTitle,
    aidTimers,              \* pending generation timers, oldest first, each
                            \* with the type and title of its request
    \* what the last handler did
    last

voiceVars == <<browserSupportsSpeechRecognition, nativeSR, micPermission,
               isListening, isUsingFallback, fallbackRecognitionRef,
               recognitions, pendingPermission, primaryListening, liveStreams,
               selectedLanguage, pendingLanguages>>

remoteVars == <<mediaRecorderSupported, assemblyApiKey, isRecording,
                isTranscribing, mediaRecorderRef, audioChunksRef,
                recorders, acquiring, chunksDelivered>>

transcriptVars == <<fallbackTranscript, deliveredFinals, transcript>>

chatVars == <<geminiApiKey, lambApiKey, messages, isLoading, isTTSLoading,
              uploadedImage, chatStep, imageReads>>

uploadVars == <<uploadedFiles, uploadTimers, filesCreated, removedFiles>>

aidVars == <<generatedAids, aidIsGenerating, drawingPrompt, chartData,
             chartTitle, aidTimers>>

\* the state of the other components of the page
pageVars == <<uploadVars, aidVars>>

quizPlayVars == <<questions, currentQuestion, score, selectedAnswer,
                  isAnswered, showResults, quizTimers, scored>>

quizVars == <<topic, isGenerating, quizPending, quizPlayVars>>

\* what the handlers of the voice toggle leave alone
nonVoiceVars == <<remoteVars, chatVars, quizVars, pageVars>>

\* what the handlers of the recorder leave alone
nonRemoteVars == <<voiceVars, transcriptVars, chatVars, quizVars, pageVars>>

vars == <<voiceVars, remoteVars, inputValue, transcriptVars, chatVars,
          quizVars, pageVars, last>>

NULL == 0

\* ------------------------------------------------------------------ locales
\* ChatInterface.tsx 80-106: the codes the language selector offers.
OfferedCodes ==
    {"hi", "en", "bn", "te", "mr", "ta", "gu", "kn", "ml", "pa", "or", "as",
     "sa", "ur", "ne", "es", "fr", "de", "it", "pt", "ru", "ja", "ko", "zh",
     "ar"}

\* ChatInterface.tsx 110-136: the object literal of getLocaleForLanguage.
LocaleMap ==
    [hi |-> "hi-IN", en |-> "en-US", bn |-> "bn-IN", te |-> "te-IN",
     mr |-> "mr-IN", ta |-> "ta-IN", gu |-> "gu-IN", kn |-> "kn-IN",
     ml |-> "ml-IN", pa |-> "pa-IN", or |-> "or-IN", as |-> "as-IN",
     sa |-> "sa-IN", ur |-> "ur-IN", ne |-> "ne-NP", es |-> "es-ES",
     fr |-> "fr-FR", de |-> "de-DE", it |-> "it-IT", pt |-> "pt-PT",
     ru |-> "ru-RU", ja |-> "ja-JP", ko |-> "ko-KR", zh |-> "zh-CN",
     ar |-> "ar-SA"]

DefaultLocale == "en-US"

\* Property names every object literal inherits from Object.prototype;
\* map[code] finds them although the literal does not list them.
ObjectPrototypeKeys == {"constructor", "toString", "valueOf"}

\* The truthy, non-string value such an inherited member is.
InheritedMember == "[inherited member]"

\* ChatInterface.tsx 109-138: map[code] || "en-US".
GetLocaleForLanguage(code) ==
    IF code \in DOMAIN LocaleMap
    THEN LocaleMap[code]
    ELSE IF code \in ObjectPrototypeKeys
         THEN InheritedMember
         ELSE DefaultLocale

\* The codes the selector is set to in the model.
LanguageChoices == {"hi", "en"}

\* "absent": neither name is a property of window; "undefined": a name is
\* in window but both values are falsy; "present": a constructor exists.
NativeSRValues == {"absent", "undefined", "present"}

\* starting: start() called, onstart not yet fired; listening: onstart
\* fired; stopping: stop() called or an error reported, onend not yet fired.
RecognitionStates == {"free", "starting", "listening", "stopping"}

Slots == 1..MaxRecognitions

RecorderSlots == 1..MaxRecorders

\* recording: start() called; stopping: stop() called, onstop not yet
\* fired; uploading, creating, polling: the request sendToAssemblyAI awaits;
\* inactive: finished and still held by mediaRecorderRef.
RecorderStates == {"free", "recording", "stopping", "uploading", "creating",
                   "polling", "inactive"}

\* Texts are sequences of characters, so that trimming is computed.
Chars == {"a", " "}

Texts == UNION {[1..n -> Chars] : n \in 0..MaxTextLen}

RECURSIVE TrimStart(_)
TrimStart(t) ==
    IF t # <<>> /\ Head(t) = " " THEN TrimStart(Tail(t)) ELSE t

RECURSIVE TrimEnd(_)
TrimEnd(t) ==
    IF t # <<>> /\ t[Len(t)] = " "
    THEN TrimEnd(SubSeq(t, 1, Len(t) - 1))
    ELSE t

\* String.prototype.trim
Trim(t) == TrimEnd(TrimStart(t))

\* ChatInterface.tsx 259: text && text.trim().length > 0
HasText(t) == t # <<>> /\ Len(Trim(t)) > 0

\* The record of the last step: the handler (and branch) that ran, the
\* alert it showed, and the text the service returned to it.
LastWith(op, notice, text) == [op |-> op, notice |-> notice, text |-> text]

Last(op, notice) == LastWith(op, notice, <<>>)

NoticeUnsupported == "Voice input is not supported in this browser. Please try Chrome or Edge on desktop."
NoticeMicDenied == "Microphone access denied. Please allow microphone access in your browser settings."
NoticeRecorderUnsupported == "Voice recording is not supported in this browser."
NoticeRecorderMicDenied == "Microphone access denied or not available."
NoticeKeyMissing == "AssemblyAI API key not found in environment variables!"
NoticeUploadFailed == "Failed to upload audio to AssemblyAI."
NoticeStartFailed == "Failed to start transcription."
NoticeTranscriptionFailed == "Transcription failed."
NoticeTopicMissing == "Please enter a topic for your quiz!"
NoticeQuizFailed == "Failed to generate quiz. Please try again!"
NoticeQuizReady == "Quiz Ready!"

\* A chat message: who wrote it, its content (a sequence of strings: the
\* characters of a typed text, or the pieces of a fixed one) and whether an
\* image is attached.
Message(isUser, content, image) ==
    [isUser |-> isUser, content |-> content, image |-> image]

\* ChatInterface.tsx 274-281
Greeting == Message(FALSE, <<"greeting">>, FALSE)

FreeSlot == CHOOSE k \in Slots :
                /\ recognitions[k] = "free"
                /\ \A j \in Slots : recognitions[j] = "free" => k <= j

HasFreeSlot == \E k \in Slots : recognitions[k] = "free"

\* ------------------------------------------------------------------ Init
\* ChatInterface.tsx 283-304 (useState / useRef initial values)
InitVoiceState ==
    /\ isListening = FALSE
    /\ isUsingFallback = FALSE
    /\ fallbackRecognitionRef = NULL
    /\ recognitions = [k \in Slots |-> "free"]
    /\ pendingPermission = 0
    /\ selectedLanguage = "hi"
    /\ pendingLanguages = [c \in LanguageChoices |-> 0]
    /\ primaryListening = FALSE
    /\ liveStreams = 0

\* ChatInterface.tsx 145-147, 283, 291
InitRemoteState ==
    /\ isRecording = FALSE
    /\ isTranscribing = FALSE
    /\ mediaRecorderRef = NULL
    /\ audioChunksRef = <<>>
    /\ inputValue = <<>>
    /\ recorders = [c \in RecorderSlots |->
                       [state |-> "free", clip |-> <<>>, tracks |-> FALSE]]
    /\ acquiring = 0
    /\ chunksDelivered = 0

\* ChatInterface.tsx 302
InitTranscriptState ==
    /\ fallbackTranscript = <<>>
    /\ deliveredFinals = <<>>
    /\ transcript = <<>>

\* ChatInterface.tsx 273-288: the chat opens with the greeting.
InitChatState ==
    /\ messages = <<Greeting>>
    /\ isLoading = FALSE
    /\ isTTSLoading = FALSE
    /\ uploadedImage = FALSE
    /\ chatStep = "none"
    /\ imageReads = 0

\* question indexes of the model
QuestionIndexes == 0..(MaxQuestions - 1)

NothingScored == [q \in QuestionIndexes |-> <<>>]

\* QuizGame.tsx 22-32
InitQuizState ==
    /\ topic = <<>>
    /\ isGenerating = FALSE
    /\ quizPending = 0
    /\ questions = <<>>
    /\ currentQuestion = 0
    /\ score = 0
    /\ selectedAnswer = <<>>
    /\ isAnswered = FALSE
    /\ showResults = FALSE
    /\ quizTimers = <<>>
    /\ scored = NothingScored

\* src/unnamed/part_001 15
InitUploadState ==
    /\ uploadedFiles = <<>>
    /\ uploadTimers = <<>>
    /\ filesCreated = 0
    /\ removedFiles = {}

\* VisualAidGenerator.tsx 21-33
InitAidState ==
    /\ generatedAids = <<>>
    /\ aidIsGenerating = FALSE
    /\ drawingPrompt = <<>>
    /\ chartData = <<>>
    /\ chartTitle = <<>>
    /\ aidTimers = <<>>

InitPageState == InitUploadState /\ InitAidState

\* What a specification of one component fixes in the others.
InitOthers ==
    /\ InitPageState
    /\ InitTranscriptState
    /\ geminiApiKey = TRUE
    /\ lambApiKey = TRUE
    /\ InitChatState
    /\ InitQuizState

Init ==
    /\ browserSupportsSpeechRecognition \in BOOLEAN
    /\ nativeSR \in NativeSRValues
    /\ micPermission \in {"granted", "denied"}
    /\ InitVoiceState
    /\ mediaRecorderSupported = TRUE
    /\ assemblyApiKey = TRUE
    /\ InitRemoteState
    /\ InitOthers
    /\ last = Last("init", "none")

InitRemote ==
    /\ browserSupportsSpeechRecognition = TRUE
    /\ nativeSR = "present"
    /\ micPermission = "granted"
    /\ InitVoiceState
    /\ mediaRecorderSupported \in BOOLEAN
    /\ assemblyApiKey \in BOOLEAN
    /\ InitRemoteState
    /\ InitOthers
    /\ last = Last("init", "none")

voiceEnv == <<browserSupportsSpeechRecognition, nativeSR, micPermission,
              selectedLanguage>>

pendingVars == <<pendingPermission, pendingLanguages>>

remoteEnv == <<mediaRecorderSupported, assemblyApiKey>>

\* ------------------------------------------------------- transcript effect
\* ChatInterface.tsx 312-325: the two effects that run, in this order,
\* after a handler changed a transcript or isListening.  tr and ft are the
\* library's and the fallback's transcript as the handler left them; once
\* isListening is FALSE a non-empty transcript is moved into the input
\* field and cleared (resetTranscript, setFallbackTranscript("")), the
\* fallback's write coming last.
TranscriptEffects(tr, ft) ==
    IF ~isListening'
    THEN /\ inputValue' = IF ft # <<>> THEN ft
                          ELSE IF tr # <<>> THEN tr ELSE inputValue
         /\ transcript' = <<>>
         /\ fallbackTranscript' = <<>>
    ELSE /\ inputValue' = inputValue
         /\ transcript' = tr
         /\ fallbackTranscript' = ft

\* The effects after a handler that left the library's transcript alone.
FallbackTranscriptEffect(ft) == TranscriptEffects(transcript, ft)

\* ------------------------------------------------- startFallbackSpeechRecognition
\* ChatInterface.tsx 327-374 up to recognition.start(): constructs and
\* starts a native object when a constructor exists, otherwise returns
\* silently.  op names the caller for the record of the step, code is the
\* selectedLanguage of the render that created the caller (335).
StartFallbackSpeechRecognition(op, code) ==
    /\ recognitions' = IF nativeSR = "present"
                       THEN [recognitions EXCEPT ![FreeSlot] = "starting"]
                       ELSE recognitions
    /\ last' = IF nativeSR = "present"
               THEN LastWith(op, "none", <<GetLocaleForLanguage(code)>>)
               ELSE Last(op, "none")

\* ------------------------------------------------------------ handleVoiceInput
\* The stop path with the fallback branch flipping the flags only, and the
\* primary branch leaving the library session on.
VoiceStopPath_FlagsOnly ==
    /\ isListening
    /\ isListening' = FALSE
    /\ isUsingFallback' = FALSE
    /\ last' = Last(IF isUsingFallback THEN "stopFallback" ELSE "stopPrimary",
                    "none")
    /\ UNCHANGED <<recognitions, primaryListening, fallbackRecognitionRef,
                   pendingVars, liveStreams>>

\* The stop path calling stop() on the first native object that listens
\* instead of the stored one.
VoiceStopPath_StopsFirst ==
    /\ isListening
    /\ IF isUsingFallback
       THEN /\ recognitions' =
                 IF \E k \in Slots : recognitions[k] = "listening"
                 THEN [recognitions EXCEPT
                          ![CHOOSE k \in Slots :
                               /\ recognitions[k] = "listening"
                               /\ \A j \in Slots :
                                      recognitions[j] = "listening" => k <= j]
                              = "stopping"]
                 ELSE recognitions
            /\ isListening' = FALSE
            /\ isUsingFallback' = FALSE
            /\ UNCHANGED primaryListening
       ELSE /\ primaryListening' = FALSE
            /\ isListening' = FALSE
            /\ UNCHANGED <<isUsingFallback, recognitions>>
    /\ last' = Last(IF isUsingFallback THEN "stopFallback" ELSE "stopPrimary",
                    "none")
    /\ UNCHANGED <<fallbackRecognitionRef, pendingVars, liveStreams>>

\* ChatInterface.tsx 377-394: the stop path.
VoiceStopPath ==
    /\ isListening
    /\ IF isUsingFallback
       THEN /\ recognitions' =
                 IF /\ fallbackRecognitionRef # NULL
                    /\ recognitions[fallbackRecognitionRef] = "listening"
                 THEN [recognitions EXCEPT ![fallbackRecognitionRef] = "stopping"]
                 ELSE recognitions
            /\ isListening' = FALSE
            /\ isUsingFallback' = FALSE
            /\ UNCHANGED primaryListening
       ELSE /\ primaryListening' = FALSE
            /\ isListening' = FALSE
            /\ UNCHANGED <<isUsingFallback, recognitions>>
    /\ last' = Last(IF isUsingFallback THEN "stopFallback" ELSE "stopPrimary",
                    "none")
    /\ UNCHANGED <<fallbackRecognitionRef, pendingVars, liveStreams>>

\* The start path trying the fallback adapter before the primary one.
VoiceStartPath_FallbackFirst ==
    /\ ~isListening
    /\ IF nativeSR # "absent"
       THEN /\ nativeSR = "present" => HasFreeSlot
            /\ StartFallbackSpeechRecognition("unsupportedPrimary", selectedLanguage)
            /\ UNCHANGED pendingVars
       ELSE IF browserSupportsSpeechRecognition
            THEN /\ pendingPermission < MaxPending
                 /\ liveStreams + pendingPermission < MaxStreams
                 /\ pendingPermission' = pendingPermission + 1
                 /\ pendingLanguages' =
                        [pendingLanguages EXCEPT ![selectedLanguage] = @ + 1]
                 /\ last' = Last("requestPermission", "none")
                 /\ UNCHANGED recognitions
            ELSE /\ last' = Last("unsupportedPrimary", NoticeUnsupported)
                 /\ UNCHANGED <<recognitions, pendingVars>>
    /\ UNCHANGED <<isListening, isUsingFallback, fallbackRecognitionRef,
                   primaryListening, liveStreams>>

\* The start path without the alert of its last branch.
VoiceStartPath_Silent ==
    /\ ~isListening
    /\ IF browserSupportsSpeechRecognition
       THEN /\ pendingPermission < MaxPending
            /\ liveStreams + pendingPermission < MaxStreams
            /\ pendingPermission' = pendingPermission + 1
            /\ pendingLanguages' =
                   [pendingLanguages EXCEPT ![selectedLanguage] = @ + 1]
            /\ last' = Last("requestPermission", "none")
            /\ UNCHANGED recognitions
       ELSE /\ UNCHANGED pendingVars
            /\ nativeSR = "present" => HasFreeSlot
            /\ StartFallbackSpeechRecognition("unsupportedPrimary", selectedLanguage)
    /\ UNCHANGED <<isListening, isUsingFallback, fallbackRecognitionRef,
                   primaryListening, liveStreams>>

\* ChatInterface.tsx 396-427: the start path.
VoiceStartPath ==
    /\ ~isListening
    /\ IF browserSupportsSpeechRecognition
       THEN /\ pendingPermission < MaxPending
            /\ liveStreams + pendingPermission < MaxStreams
            /\ pendingPermission' = pendingPermission + 1
            /\ pendingLanguages' =
                   [pendingLanguages EXCEPT ![selectedLanguage] = @ + 1]
            /\ last' = Last("requestPermission", "none")
            /\ UNCHANGED recognitions
       ELSE /\ UNCHANGED pendingVars
            /\ IF nativeSR # "absent"
               THEN /\ nativeSR = "present" => HasFreeSlot
                    /\ StartFallbackSpeechRecognition("unsupportedPrimary", selectedLanguage)
               ELSE /\ last' = Last("unsupportedPrimary", NoticeUnsupported)
                    /\ UNCHANGED recognitions
    /\ UNCHANGED <<isListening, isUsingFallback, fallbackRecognitionRef,
                   primaryListening, liveStreams>>

\* ChatInterface.tsx 376-427; the button is disabled while a message is
\* being answered (727).
HandleVoiceInput ==
    /\ ~isLoading
    /\ IF isListening THEN VoiceStopPath ELSE VoiceStartPath
    /\ FallbackTranscriptEffect(fallbackTranscript)
    /\ UNCHANGED <<voiceEnv, nonVoiceVars, deliveredFinals>>

\* ChatInterface.tsx 400-408: getUserMedia resolved; the callback is the
\* one handleVoiceInput created, with the selectedLanguage of its render.
PermissionGranted ==
    /\ pendingPermission > 0
    /\ micPermission = "granted"
    /\ pendingPermission' = pendingPermission - 1
    /\ liveStreams' = liveStreams + 1
    /\ isListening' = TRUE
    /\ isUsingFallback' = FALSE
    /\ primaryListening' = TRUE
    /\ \E code \in LanguageChoices :
           /\ pendingLanguages[code] > 0
           /\ pendingLanguages' = [pendingLanguages EXCEPT ![code] = @ - 1]
           /\ last' = LastWith("granted", "none",
                               <<GetLocaleForLanguage(code)>>)
    /\ UNCHANGED <<voiceEnv, fallbackRecognitionRef, recognitions,
                   nonVoiceVars, inputValue, transcriptVars>>

\* ChatInterface.tsx 409-413: getUserMedia rejected (permission denied, no
\* device, device busy).
PermissionDenied ==
    /\ pendingPermission > 0
    /\ nativeSR = "present" => HasFreeSlot
    /\ pendingPermission' = pendingPermission - 1
    /\ \E code \in LanguageChoices :
           /\ pendingLanguages[code] > 0
           /\ pendingLanguages' = [pendingLanguages EXCEPT ![code] = @ - 1]
           /\ StartFallbackSpeechRecognition("denied", code)
    /\ UNCHANGED <<voiceEnv, isListening, isUsingFallback,
                   fallbackRecognitionRef, primaryListening, liveStreams,
                   nonVoiceVars, inputValue, transcriptVars>>

\* ------------------------------------------------ native recognition callbacks
\* ChatInterface.tsx 337-341
OnStart(k) ==
    /\ recognitions[k] = "starting"
    /\ micPermission = "granted"
    /\ recognitions' = [recognitions EXCEPT ![k] = "listening"]
    /\ isListening' = TRUE
    /\ isUsingFallback' = TRUE
    /\ fallbackRecognitionRef' = k
    /\ deliveredFinals' = <<>>
    /\ last' = Last("onstart", "none")
    /\ UNCHANGED <<voiceEnv, pendingVars, primaryListening, liveStreams,
                   nonVoiceVars, inputValue, fallbackTranscript, transcript>>

ErrorReasons == {"not-allowed", "no-speech", "network"}

\* onerror alerting whatever the reason is.
OnError_AlwaysAlerts(k, reason) ==
    /\ recognitions[k] \in {"starting", "listening"}
    /\ reason = "not-allowed" => micPermission = "denied"
    /\ recognitions' = [recognitions EXCEPT ![k] = "stopping"]
    /\ isListening' = FALSE
    /\ isUsingFallback' = FALSE
    /\ last' = LastWith("onerror", NoticeMicDenied, <<reason>>)
    /\ FallbackTranscriptEffect(fallbackTranscript)
    /\ UNCHANGED <<voiceEnv, fallbackRecognitionRef, pendingVars,
                   primaryListening, liveStreams, nonVoiceVars,
                   deliveredFinals>>

\* ChatInterface.tsx 355-364; the reason is logged (356), and an error is
\* followed by the end event.
OnError(k, reason) ==
    /\ recognitions[k] \in {"starting", "listening"}
    /\ reason = "not-allowed" => micPermission = "denied"
    /\ recognitions' = [recognitions EXCEPT ![k] = "stopping"]
    /\ isListening' = FALSE
    /\ isUsingFallback' = FALSE
    /\ last' = LastWith("onerror",
                        IF reason = "not-allowed" THEN NoticeMicDenied
                                                  ELSE "none",
                        <<reason>>)
    /\ FallbackTranscriptEffect(fallbackTranscript)
    /\ UNCHANGED <<voiceEnv, fallbackRecognitionRef, pendingVars,
                   primaryListening, liveStreams, nonVoiceVars,
                   deliveredFinals>>

\* ChatInterface.tsx 366-370; fires after stop(), after an error, or when
\* the service ends the session by itself.
OnEnd(k) ==
    /\ recognitions[k] \in {"listening", "stopping"}
    /\ recognitions' = [recognitions EXCEPT ![k] = "free"]
    /\ isListening' = FALSE
    /\ isUsingFallback' = FALSE
    /\ fallbackRecognitionRef' = NULL
    /\ last' = Last("onend", "none")
    /\ FallbackTranscriptEffect(fallbackTranscript)
    /\ UNCHANGED <<voiceEnv, pendingVars, primaryListening, liveStreams,
                   nonVoiceVars, deliveredFinals>>

\* A result of the recognition service: interim or final, with the
\* transcript of its first alternative (at most one character here).
SegmentTexts == {t \in Texts : Len(t) <= 1}

Segments == [isFinal : BOOLEAN, transcript : SegmentTexts]

\* event.results from event.resultIndex to the end
ResultEvents == UNION {[1..n -> Segments] : n \in 1..MaxSegments}

\* ChatInterface.tsx 344-349: the loop over the results of the event.
RECURSIVE FinalTranscript(_)
FinalTranscript(segs) ==
    IF segs = <<>>
    THEN <<>>
    ELSE (IF Head(segs).isFinal THEN Head(segs).transcript ELSE <<>>)
             \o FinalTranscript(Tail(segs))

\* ChatInterface.tsx 343-353 with the effect 319-325: onresult of the
\* native object k; results still arrive between stop() and the end event.
OnResult(k, segs) ==
    /\ recognitions[k] \in {"listening", "stopping"}
    /\ Len(deliveredFinals) + Len(FinalTranscript(segs)) <= MaxTextLen
    /\ deliveredFinals' = deliveredFinals \o FinalTranscript(segs)
    /\ UNCHANGED <<voiceVars, nonVoiceVars>>
    /\ FallbackTranscriptEffect(IF FinalTranscript(segs) # <<>>
                                THEN FinalTranscript(segs)
                                ELSE fallbackTranscript)
    /\ last' = LastWith("onresult", "none", FinalTranscript(segs))

\* The transcripts the library reports from recognised speech.
PrimaryTranscripts == SegmentTexts \ {<<>>}

\* The library reports a new transcript while its session is on
\* (ChatInterface.tsx 294-299), and the effects run.
PrimaryResult(t) ==
    /\ primaryListening
    /\ t # transcript
    /\ UNCHANGED <<voiceVars, nonVoiceVars, deliveredFinals>>
    /\ TranscriptEffects(t, fallbackTranscript)
    /\ last' = LastWith("primaryResult", "none", t)

\* ChatInterface.tsx 593-596: the language selector; it stays enabled
\* while a permission request is pending.
SetLanguage(code) ==
    /\ code # selectedLanguage
    /\ selectedLanguage' = code
    /\ last' = Last("setLanguage", "none")
    /\ UNCHANGED <<browserSupportsSpeechRecognition, nativeSR, micPermission,
                   isListening, isUsingFallback, fallbackRecognitionRef,
                   recognitions, pendingVars, primaryListening,
                   liveStreams, nonVoiceVars, inputValue, transcriptVars>>

\* The user changes the microphone permission in the browser.
SetPermission(p) ==
    /\ micPermission # p
    /\ micPermission' = p
    /\ last' = Last("setPermission", "none")
    /\ UNCHANGED <<browserSupportsSpeechRecognition, nativeSR,
                   selectedLanguage,
                   isListening, isUsingFallback, fallbackRecognitionRef,
                   recognitions, pendingVars, primaryListening,
                   liveStreams, nonVoiceVars, inputValue, transcriptVars>>

\* ------------------------------------------------------ useAssemblyAIRecorder
FreeRecorder == CHOOSE c \in RecorderSlots :
                    /\ recorders[c].state \in {"free", "inactive"}
                    /\ \A d \in RecorderSlots :
                           recorders[d].state \in {"free", "inactive"} => c <= d

HasFreeRecorder == \E c \in RecorderSlots : recorders[c].state \in {"free", "inactive"}

FreeRecord == [state |-> "free", clip |-> <<>>, tracks |-> FALSE]

\* The recorder c once its onstop handler has returned: the object stays
\* reachable only through mediaRecorderRef.
Finished(c) ==
    [state |-> IF mediaRecorderRef = c THEN "inactive" ELSE "free",
     clip |-> <<>>, tracks |-> recorders[c].tracks]

\* ChatInterface.tsx 149-160: startRecording up to the await of getUserMedia.
StartRecording ==
    /\ IF ~mediaRecorderSupported
       THEN /\ last' = Last("startRecording", NoticeRecorderUnsupported)
            /\ UNCHANGED <<isRecording, audioChunksRef, acquiring>>
       ELSE /\ acquiring < MaxAcquiring
            /\ isRecording' = TRUE
            /\ audioChunksRef' = <<>>
            /\ acquiring' = acquiring + 1
            /\ last' = Last("startRecording", "none")
    /\ UNCHANGED <<nonRemoteVars, remoteEnv, isTranscribing, mediaRecorderRef,
                   inputValue, recorders, chunksDelivered>>

\* ChatInterface.tsx 160-178: getUserMedia resolved; the recorder is
\* constructed, stored and started.
RecordingGranted ==
    /\ acquiring > 0
    /\ HasFreeRecorder
    /\ acquiring' = acquiring - 1
    /\ mediaRecorderRef' = FreeRecorder
    /\ recorders' = [c \in RecorderSlots |->
                        IF c = FreeRecorder
                        THEN [state |-> "recording", clip |-> <<>>, tracks |-> TRUE]
                        ELSE IF recorders[c].state = "inactive"
                             THEN FreeRecord
                             ELSE recorders[c]]
    /\ last' = Last("recordingGranted", "none")
    /\ UNCHANGED <<nonRemoteVars, remoteEnv, isRecording, isTranscribing,
                   audioChunksRef, inputValue, chunksDelivered>>

\* The rejection handler leaving the recording flag set.
RecordingDenied_KeepsRecording ==
    /\ acquiring > 0
    /\ acquiring' = acquiring - 1
    /\ isTranscribing' = FALSE
    /\ last' = Last("recordingDenied", NoticeRecorderMicDenied)
    /\ UNCHANGED <<nonRemoteVars, remoteEnv, isRecording, mediaRecorderRef,
                   audioChunksRef, inputValue, recorders, chunksDelivered>>

\* ChatInterface.tsx 179-183: getUserMedia rejected.
RecordingDenied ==
    /\ acquiring > 0
    /\ acquiring' = acquiring - 1
    /\ isRecording' = FALSE
    /\ isTranscribing' = FALSE
    /\ last' = Last("recordingDenied", NoticeRecorderMicDenied)
    /\ UNCHANGED <<nonRemoteVars, remoteEnv, mediaRecorderRef, audioChunksRef,
                   inputValue, recorders, chunksDelivered>>

\* ChatInterface.tsx 163-167: mediaRecorder.ondataavailable.
DataAvailable(c, size) ==
    /\ recorders[c].state \in {"recording", "stopping"}
    /\ chunksDelivered < MaxChunks
    /\ chunksDelivered' = chunksDelivered + 1
    /\ audioChunksRef' = IF size > 0
                         THEN Append(audioChunksRef, chunksDelivered + 1)
                         ELSE audioChunksRef
    /\ last' = Last("dataavailable", "none")
    /\ UNCHANGED <<nonRemoteVars, remoteEnv, isRecording, isTranscribing,
                   mediaRecorderRef, inputValue, recorders, acquiring>>

StopRecordingOps == {"stopRecording", "stopRecordingInactive",
                     "stopRecordingThrows", "stopRecordingNoop"}

\* stopRecording without the test of isRecording.
StopRecording_Unguarded ==
    /\ IF mediaRecorderRef # NULL
       THEN IF recorders[mediaRecorderRef].state = "recording"
            THEN /\ recorders' = [recorders EXCEPT
                                    ![mediaRecorderRef].state = "stopping",
                                    ![mediaRecorderRef].tracks = FALSE]
                 /\ last' = Last("stopRecording", "none")
            ELSE /\ \E thrown \in BOOLEAN :
                        last' = Last(IF thrown THEN "stopRecordingThrows"
                                               ELSE "stopRecordingInactive",
                                     "none")
                 /\ UNCHANGED recorders
       ELSE /\ last' = Last("stopRecordingNoop", "none")
            /\ UNCHANGED recorders
    /\ UNCHANGED <<nonRemoteVars, remoteEnv, isRecording, isTranscribing,
                   mediaRecorderRef, audioChunksRef, inputValue, acquiring,
                   chunksDelivered>>

\* ChatInterface.tsx 186-193: stopRecording.  stop() on a recorder that is
\* no longer recording changes nothing; by browser it returns or throws
\* InvalidStateError, which stopRecording does not catch.
StopRecording ==
    /\ IF mediaRecorderRef # NULL /\ isRecording
       THEN IF recorders[mediaRecorderRef].state = "recording"
            THEN /\ recorders' = [recorders EXCEPT
                                    ![mediaRecorderRef].state = "stopping",
                                    ![mediaRecorderRef].tracks = FALSE]
                 /\ last' = Last("stopRecording", "none")
            ELSE /\ \E thrown \in BOOLEAN :
                        last' = Last(IF thrown THEN "stopRecordingThrows"
                                               ELSE "stopRecordingInactive",
                                     "none")
                 /\ UNCHANGED recorders
       ELSE /\ last' = Last("stopRecordingNoop", "none")
            /\ UNCHANGED recorders
    /\ UNCHANGED <<nonRemoteVars, remoteEnv, isRecording, isTranscribing,
                   mediaRecorderRef, audioChunksRef, inputValue, acquiring,
                   chunksDelivered>>

\* ChatInterface.tsx 168-177 with 196-210: mediaRecorder.onstop assembles
\* the clip and enters sendToAssemblyAI, which returns at once without a
\* key and otherwise awaits the upload.
OnStop(c) ==
    /\ recorders[c].state = "stopping"
    /\ isRecording' = FALSE
    /\ IF ~assemblyApiKey
       THEN /\ isTranscribing' = FALSE
            /\ recorders' = [recorders EXCEPT ![c] = Finished(c)]
            /\ last' = Last("onstop", NoticeKeyMissing)
       ELSE /\ isTranscribing' = TRUE
            /\ recorders' = [recorders EXCEPT ![c].state = "uploading",
                                              ![c].clip = audioChunksRef]
            /\ last' = Last("onstop", "none")
    /\ UNCHANGED <<nonRemoteVars, remoteEnv, mediaRecorderRef, audioChunksRef,
                   inputValue, acquiring, chunksDelivered>>

\* The end of sendToAssemblyAI that leaves the transcribing flag as it is.
SendReturns_KeepsTranscribing(c, op, notice, text) ==
    /\ UNCHANGED isTranscribing
    /\ recorders' = [recorders EXCEPT ![c] = Finished(c)]
    /\ last' = LastWith(op, notice, text)

\* The end of sendToAssemblyAI for recorder c and of the onstop handler
\* that awaited it (ChatInterface.tsx 176): the session leaves transcribing.
SendReturns(c, op, notice, text) ==
    /\ isTranscribing' = FALSE
    /\ recorders' = [recorders EXCEPT ![c] = Finished(c)]
    /\ last' = LastWith(op, notice, text)

RequestOutcomes == {"ok", "missing", "throws"}

\* ChatInterface.tsx 204-215 and 264-267: the upload settles.
UploadSettled(c, outcome) ==
    /\ recorders[c].state = "uploading"
    /\ CASE outcome = "ok" ->
              /\ recorders' = [recorders EXCEPT ![c].state = "creating",
                                                ![c].clip = <<>>]
              /\ last' = Last("uploaded", "none")
              /\ UNCHANGED isTranscribing
         [] outcome = "missing" ->
              SendReturns(c, "uploadFailed", NoticeUploadFailed, <<>>)
         [] outcome = "throws" ->
              SendReturns(c, "uploadThrows", "none", <<>>)
    /\ UNCHANGED <<nonRemoteVars, remoteEnv, isRecording, mediaRecorderRef,
                   audioChunksRef, inputValue, acquiring, chunksDelivered>>

\* ChatInterface.tsx 217-234 and 264-267: the job creation settles.
CreateSettled(c, outcome) ==
    /\ recorders[c].state = "creating"
    /\ CASE outcome = "ok" ->
              /\ recorders' = [recorders EXCEPT ![c].state = "polling"]
              /\ last' = Last("created", "none")
              /\ UNCHANGED isTranscribing
         [] outcome = "missing" ->
              SendReturns(c, "createFailed", NoticeStartFailed, <<>>)
         [] outcome = "throws" ->
              SendReturns(c, "createThrows", "none", <<>>)
    /\ UNCHANGED <<nonRemoteVars, remoteEnv, isRecording, mediaRecorderRef,
                   audioChunksRef, inputValue, acquiring, chunksDelivered>>

PollStatuses == {"queued", "processing", "error", "completed", "failed"}

\* The poll step writing the trimmed text.
PollSettled_Trimmed(c, status, text) ==
    /\ recorders[c].state = "polling"
    /\ status # "completed" => text = <<>>
    /\ CASE status = "completed" ->
              /\ inputValue' = IF HasText(text) THEN Trim(text) ELSE inputValue
              /\ SendReturns(c, "pollCompleted", "none", text)
         [] status = "failed" ->
              /\ SendReturns(c, "pollFailed", NoticeTranscriptionFailed, <<>>)
              /\ UNCHANGED inputValue
         [] OTHER ->
              /\ last' = Last("pollPending", "none")
              /\ UNCHANGED <<inputValue, isTranscribing, recorders>>
    /\ UNCHANGED <<nonRemoteVars, remoteEnv, isRecording, mediaRecorderRef,
                   audioChunksRef, acquiring, chunksDelivered>>

\* The poll step treating failed like completed: no alert, and the (empty)
\* text of the failed job replaces the input.
PollSettled_FailedAsCompleted(c, status, text) ==
    /\ recorders[c].state = "polling"
    /\ status # "completed" => text = <<>>
    /\ CASE status = "completed" ->
              /\ inputValue' = IF HasText(text) THEN text ELSE inputValue
              /\ SendReturns(c, "pollCompleted", "none", text)
         [] status = "failed" ->
              /\ SendReturns(c, "pollFailed", "none", <<>>)
              /\ inputValue' = text
         [] OTHER ->
              /\ last' = Last("pollPending", "none")
              /\ UNCHANGED <<inputValue, isTranscribing, recorders>>
    /\ UNCHANGED <<nonRemoteVars, remoteEnv, isRecording, mediaRecorderRef,
                   audioChunksRef, acquiring, chunksDelivered>>

\* The poll step leaving the loop on any status that is not a pending one.
PollSettled_ExitsOnError(c, status, text) ==
    /\ recorders[c].state = "polling"
    /\ status # "completed" => text = <<>>
    /\ CASE status = "completed" ->
              /\ inputValue' = IF HasText(text) THEN text ELSE inputValue
              /\ SendReturns(c, "pollCompleted", "none", text)
         [] status = "failed" ->
              /\ SendReturns(c, "pollFailed", NoticeTranscriptionFailed, <<>>)
              /\ UNCHANGED inputValue
         [] status = "error" ->
              /\ SendReturns(c, "pollGaveUp", "none", <<>>)
              /\ UNCHANGED inputValue
         [] OTHER ->
              /\ last' = Last("pollPending", "none")
              /\ UNCHANGED <<inputValue, isTranscribing, recorders>>
    /\ UNCHANGED <<nonRemoteVars, remoteEnv, isRecording, mediaRecorderRef,
                   audioChunksRef, acquiring, chunksDelivered>>

\* ChatInterface.tsx 238-263: one poll of the loop settles with a status
\* and, when completed, the result text.
PollSettled(c, status, text) ==
    /\ recorders[c].state = "polling"
    /\ status # "completed" => text = <<>>
    /\ CASE status = "completed" ->
              /\ inputValue' = IF HasText(text) THEN text ELSE inputValue
              /\ SendReturns(c, "pollCompleted", "none", text)
         [] status = "failed" ->
              /\ SendReturns(c, "pollFailed", NoticeTranscriptionFailed, <<>>)
              /\ UNCHANGED inputValue
         [] OTHER ->
              /\ last' = Last("pollPending", "none")
              /\ UNCHANGED <<inputValue, isTranscribing, recorders>>
    /\ UNCHANGED <<nonRemoteVars, remoteEnv, isRecording, mediaRecorderRef,
                   audioChunksRef, acquiring, chunksDelivered>>

\* ChatInterface.tsx 240-246 and 264-267: a poll throws.
PollThrows(c) ==
    /\ recorders[c].state = "polling"
    /\ SendReturns(c, "pollThrows", "none", <<>>)
    /\ UNCHANGED <<nonRemoteVars, remoteEnv, isRecording, mediaRecorderRef,
                   audioChunksRef, inputValue, acquiring, chunksDelivered>>

\* ChatInterface.tsx 717-721: the user edits the input field, which is
\* disabled while a message is being answered.
TypeInput(t) ==
    /\ ~isLoading
    /\ inputValue # t
    /\ inputValue' = t
    /\ last' = Last("typeInput", "none")
    /\ UNCHANGED <<nonRemoteVars, remoteEnv, isRecording, isTranscribing,
                   mediaRecorderRef, audioChunksRef, recorders, acquiring,
                   chunksDelivered>>

\* ------------------------------------------------------------ handleSendMessage
\* The words the catch block of handleSendMessage looks for in the message
\* of the error it caught (ChatInterface.tsx 542-547).
Keywords == {"API key", "quota", "network"}

\* An error: its message and the keywords the message contains.
ChatError(text, keywords) == [text |-> text, keywords |-> keywords]

\* ChatInterface.tsx 459
GeminiKeyMissing ==
    ChatError("Gemini API key not found. Check .env file.", {"API key"})

\* What generateContent may throw.
ServiceErrors == {ChatError("service error", ks) : ks \in SUBSET Keywords}

\* ChatInterface.tsx 538-553: the content of the error message.
ErrorContent(err) ==
    IF "API key" \in err.keywords
    THEN <<"API key error: ", err.text>>
    ELSE IF "quota" \in err.keywords
         THEN <<"API quota exceeded. Please check your Gemini API usage.">>
         ELSE IF "network" \in err.keywords
              THEN <<"Network error. Please check your internet connection.">>
              ELSE <<"Error: ", err.text>>

\* ChatInterface.tsx 535-565: the catch and finally blocks, after the
\* message list msgs.
SendFails(msgs, err, op) ==
    /\ messages' = Append(msgs, Message(FALSE, ErrorContent(err), FALSE))
    /\ isLoading' = FALSE
    /\ chatStep' = "none"
    /\ last' = Last(op, "none")

\* ChatInterface.tsx 443-449
UserMessage ==
    Message(TRUE,
            IF inputValue # <<>> THEN inputValue ELSE <<"Analyze this image">>,
            uploadedImage)

\* handleSendMessage without the check of the key: the request is issued
\* whether or not a key is configured.
HandleSendMessage_KeyUnchecked ==
    /\ ~isLoading
    /\ IF Trim(inputValue) = <<>> /\ ~uploadedImage
       THEN /\ last' = Last("sendIgnored", "none")
            /\ UNCHANGED <<messages, inputValue, uploadedImage, isLoading,
                           chatStep>>
       ELSE /\ Len(messages) + 2 <= MaxMessages
            /\ inputValue' = <<>>
            /\ uploadedImage' = FALSE
            /\ messages' = Append(messages, UserMessage)
            /\ isLoading' = TRUE
            /\ chatStep' = "generating"
            /\ last' = Last("send", "none")
    /\ UNCHANGED <<pageVars, voiceVars, remoteVars, transcriptVars, quizVars,
                   geminiApiKey, lambApiKey, isTTSLoading, imageReads>>

\* ChatInterface.tsx 440-488: handleSendMessage up to the await of
\* generateContent; without a key the handler throws, catches and returns
\* in the same step.
HandleSendMessage ==
    /\ ~isLoading
    /\ IF Trim(inputValue) = <<>> /\ ~uploadedImage
       THEN /\ last' = Last("sendIgnored", "none")
            /\ UNCHANGED <<messages, inputValue, uploadedImage, isLoading,
                           chatStep>>
       ELSE /\ Len(messages) + 2 <= MaxMessages
            /\ inputValue' = <<>>
            /\ uploadedImage' = FALSE
            /\ IF ~geminiApiKey
               THEN SendFails(Append(messages, UserMessage), GeminiKeyMissing,
                              "sendNoKey")
               ELSE /\ messages' = Append(messages, UserMessage)
                    /\ isLoading' = TRUE
                    /\ chatStep' = "generating"
                    /\ last' = Last("send", "none")
    /\ UNCHANGED <<pageVars, voiceVars, remoteVars, transcriptVars, quizVars,
                   geminiApiKey, lambApiKey, isTTSLoading, imageReads>>

\* The continuation issuing the speech request whether or not a key is
\* configured.
GenerateSettled_SpeechKeyUnchecked(ok, err) ==
    /\ chatStep = "generating"
    /\ IF ok
       THEN /\ messages' = Append(messages, Message(FALSE, <<"reply">>, FALSE))
            /\ isTTSLoading' = TRUE
            /\ chatStep' = "tts"
            /\ last' = Last("reply", "none")
            /\ UNCHANGED isLoading
       ELSE /\ SendFails(messages, err, "generateThrows")
            /\ UNCHANGED isTTSLoading
    /\ UNCHANGED <<pageVars, voiceVars, remoteVars, transcriptVars, quizVars,
                   geminiApiKey, lambApiKey, inputValue, uploadedImage,
                   imageReads>>

\* ChatInterface.tsx 485-506 and 530-565: generateContent settles.  The
\* reply is appended and the speech request follows; without a speech key
\* the inner try throws, is logged, and the handler returns.
GenerateSettled(ok, err) ==
    /\ chatStep = "generating"
    /\ IF ok
       THEN /\ messages' = Append(messages, Message(FALSE, <<"reply">>, FALSE))
            /\ IF ~lambApiKey
               THEN /\ isTTSLoading' = FALSE
                    /\ isLoading' = FALSE
                    /\ chatStep' = "none"
                    /\ last' = Last("replyNoSpeechKey", "none")
               ELSE /\ isTTSLoading' = TRUE
                    /\ chatStep' = "tts"
                    /\ last' = Last("reply", "none")
                    /\ UNCHANGED isLoading
       ELSE /\ SendFails(messages, err, "generateThrows")
            /\ UNCHANGED isTTSLoading
    /\ UNCHANGED <<pageVars, voiceVars, remoteVars, transcriptVars, quizVars,
                   geminiApiKey, lambApiKey, inputValue, uploadedImage,
                   imageReads>>

\* The speech request settling with its failure shown as a chat message.
TtsSettled_ReportsFailure(ok) ==
    /\ chatStep = "tts"
    /\ isTTSLoading' = FALSE
    /\ isLoading' = FALSE
    /\ chatStep' = "none"
    /\ messages' = IF ok THEN messages
                   ELSE Append(messages,
                               Message(FALSE, <<"Error: ", "speech">>, FALSE))
    /\ last' = Last(IF ok THEN "spoken" ELSE "speechFailed", "none")
    /\ UNCHANGED <<pageVars, voiceVars, remoteVars, transcriptVars, quizVars,
                   geminiApiKey, lambApiKey, inputValue,
                   uploadedImage, imageReads>>

\* ChatInterface.tsx 508-534 and 563-565: the speech request settles; a
\* failure is only logged.
TtsSettled(ok) ==
    /\ chatStep = "tts"
    /\ isTTSLoading' = FALSE
    /\ isLoading' = FALSE
    /\ chatStep' = "none"
    /\ last' = Last(IF ok THEN "spoken" ELSE "speechFailed", "none")
    /\ UNCHANGED <<pageVars, voiceVars, remoteVars, transcriptVars, quizVars,
                   geminiApiKey, lambApiKey, messages, inputValue,
                   uploadedImage, imageReads>>

\* ChatInterface.tsx 429-437 and 758: a file is chosen; an image is read.
HandleScreenshotUpload(isImage) ==
    /\ ~isLoading
    /\ IF isImage
       THEN /\ imageReads < MaxImageReads
            /\ imageReads' = imageReads + 1
       ELSE UNCHANGED imageReads
    /\ last' = Last("chooseFile", "none")
    /\ UNCHANGED <<pageVars, voiceVars, remoteVars, transcriptVars, quizVars,
                   geminiApiKey, lambApiKey, messages, isLoading, isTTSLoading,
                   inputValue, uploadedImage, chatStep>>

\* ChatInterface.tsx 433-435: reader.onload
ImageLoaded ==
    /\ imageReads > 0
    /\ imageReads' = imageReads - 1
    /\ uploadedImage' = TRUE
    /\ last' = Last("imageLoaded", "none")
    /\ UNCHANGED <<pageVars, voiceVars, remoteVars, transcriptVars, quizVars,
                   geminiApiKey, lambApiKey, messages, isLoading, isTTSLoading,
                   inputValue, chatStep>>

\* ChatInterface.tsx 691-704: the preview's remove button.
RemoveImage ==
    /\ uploadedImage
    /\ uploadedImage' = FALSE
    /\ last' = Last("removeImage", "none")
    /\ UNCHANGED <<pageVars, voiceVars, remoteVars, transcriptVars, quizVars,
                   geminiApiKey, lambApiKey, messages, isLoading, isTTSLoading,
                   inputValue, chatStep, imageReads>>

\* The chat of ChatInterface with the recorder and the voice toggle idle.
InitChat ==
    /\ browserSupportsSpeechRecognition = TRUE
    /\ nativeSR = "present"
    /\ micPermission = "granted"
    /\ InitVoiceState
    /\ mediaRecorderSupported = TRUE
    /\ assemblyApiKey = TRUE
    /\ InitRemoteState
    /\ InitTranscriptState
    /\ geminiApiKey \in BOOLEAN
    /\ lambApiKey \in BOOLEAN
    /\ InitChatState
    /\ InitQuizState
    /\ InitPageState
    /\ last = Last("init", "none")

NextChat ==
    \/ \E t \in Texts : TypeInput(t)
    \/ \E isImage \in BOOLEAN : HandleScreenshotUpload(isImage)
    \/ ImageLoaded
    \/ RemoveImage
    \/ HandleSendMessage
    \/ \E ok \in BOOLEAN, err \in ServiceErrors : GenerateSettled(ok, err)
    \/ \E ok \in BOOLEAN : TtsSettled(ok)

SpecChat == InitChat /\ [][NextChat]_vars

\* --------------------------------------------------------------- generateQuiz
\* Topics typed: none, blank, and one with a character.
TopicInputs == {<<>>, <<" ">>, <<"a">>}

\* QuizGame.tsx 188, 240: which of the three screens is rendered.
ResultsScreen == showResults

TopicScreen == ~showResults /\ questions = <<>>

QuestionScreen == ~showResults /\ questions # <<>>

Options == 0..MaxOption

\* The arrays generateContent may return: every question with the index of
\* its correct option; the length is whatever the reply holds.
Quizzes == UNION {[1..n -> Options] : n \in 0..MaxQuestions}

\* QuizGame.tsx 262: the user edits the topic.
SetTopic(t) ==
    /\ TopicScreen
    /\ topic # t
    /\ topic' = t
    /\ last' = Last("setTopic", "none")
    /\ UNCHANGED <<pageVars, voiceVars, remoteVars, inputValue, transcriptVars,
                   chatVars, isGenerating, quizPending, quizPlayVars>>

\* QuizGame.tsx 46-101: generateQuiz up to the await of generateContent
\* (the Enter key of the topic field calls it whatever isGenerating is,
\* line 266); without a key it throws, catches and returns in the same
\* step.
GenerateQuiz ==
    /\ TopicScreen
    /\ IF Trim(topic) = <<>>
       THEN /\ last' = Last("quizNoTopic", NoticeTopicMissing)
            /\ UNCHANGED <<isGenerating, quizPending>>
       ELSE IF ~geminiApiKey
            THEN /\ isGenerating' = FALSE
                 /\ last' = Last("quizNoKey", NoticeQuizFailed)
                 /\ UNCHANGED quizPending
            ELSE /\ quizPending < MaxQuizPending
                 /\ isGenerating' = TRUE
                 /\ quizPending' = quizPending + 1
                 /\ last' = Last("quizRequested", "none")
    /\ UNCHANGED <<pageVars, voiceVars, remoteVars, inputValue, transcriptVars,
                   chatVars, topic, quizPlayVars>>

\* QuizGame.tsx 101-131: generateContent settles; a reply without a JSON
\* array, a reply that does not parse, and a rejection all reach the catch.
\* quiz is the array a good reply holds.
QuizSettled(ok, quiz) ==
    /\ quizPending > 0
    /\ quizPending' = quizPending - 1
    /\ isGenerating' = FALSE
    /\ IF ok
       THEN /\ questions' = quiz
            /\ currentQuestion' = 0
            /\ score' = 0
            /\ selectedAnswer' = <<>>
            /\ isAnswered' = FALSE
            /\ showResults' = FALSE
            /\ scored' = NothingScored
            /\ UNCHANGED quizTimers
       ELSE UNCHANGED quizPlayVars
    /\ last' = Last(IF ok THEN "quizReady" ELSE "quizFailed",
                    IF ok THEN NoticeQuizReady ELSE NoticeQuizFailed)
    /\ UNCHANGED <<pageVars, voiceVars, remoteVars, inputValue, transcriptVars,
                   chatVars, topic>>

\* QuizGame.tsx 133-167: an option of the question shown is clicked.  The
\* handler returns at once while isAnswered; otherwise it scores the answer
\* and arms the reveal timer.
HandleAnswerSelect(answerIndex) ==
    /\ QuestionScreen
    /\ currentQuestion < Len(questions)
    /\ IF isAnswered
       THEN /\ last' = Last("answerIgnored", "none")
            /\ UNCHANGED quizPlayVars
       ELSE /\ Len(quizTimers) < MaxQuizTimers
            /\ Len(scored[currentQuestion]) < MaxScorings
            /\ selectedAnswer' = <<answerIndex>>
            /\ isAnswered' = TRUE
            /\ score' = IF answerIndex = questions[currentQuestion + 1]
                        THEN score + CorrectPoints
                        ELSE score - WrongPenalty
            /\ quizTimers' = Append(quizTimers,
                                    [currentQuestion |-> currentQuestion,
                                     length |-> Len(questions)])
            /\ scored' = [scored EXCEPT ![currentQuestion] =
                              Append(@, answerIndex = questions[currentQuestion + 1])]
            /\ last' = Last("answer", "none")
            /\ UNCHANGED <<questions, currentQuestion, showResults>>
    /\ UNCHANGED <<pageVars, voiceVars, remoteVars, inputValue, transcriptVars,
                   chatVars, topic, isGenerating, quizPending>>

\* QuizGame.tsx 158-166: the oldest reveal timer fires (all timers have
\* the same delay); its callback uses the values of its own render.
QuizTimerFires ==
    /\ quizTimers # <<>>
    /\ quizTimers' = Tail(quizTimers)
    /\ IF Head(quizTimers).currentQuestion < Head(quizTimers).length - 1
       THEN /\ currentQuestion' = Head(quizTimers).currentQuestion + 1
            /\ selectedAnswer' = <<>>
            /\ isAnswered' = FALSE
            /\ UNCHANGED showResults
       ELSE /\ showResults' = TRUE
            /\ UNCHANGED <<currentQuestion, selectedAnswer, isAnswered>>
    /\ last' = Last("quizTimer", "none")
    /\ UNCHANGED <<pageVars, voiceVars, remoteVars, inputValue, transcriptVars,
                   chatVars, topic, isGenerating, quizPending, questions,
                   score, scored>>

\* QuizGame.tsx 169-177 and 219-221: "New Quiz" on the results screen.
ResetQuiz ==
    /\ ResultsScreen
    /\ questions' = <<>>
    /\ currentQuestion' = 0
    /\ score' = 0
    /\ selectedAnswer' = <<>>
    /\ isAnswered' = FALSE
    /\ showResults' = FALSE
    /\ topic' = <<>>
    /\ scored' = NothingScored
    /\ last' = Last("resetQuiz", "none")
    /\ UNCHANGED <<pageVars, voiceVars, remoteVars, inputValue, transcriptVars,
                   chatVars, isGenerating, quizPending, quizTimers>>

\* ------------------------------------------------------------------ the quiz
InitQuiz ==
    /\ browserSupportsSpeechRecognition = TRUE
    /\ nativeSR = "present"
    /\ micPermission = "granted"
    /\ InitVoiceState
    /\ mediaRecorderSupported = TRUE
    /\ assemblyApiKey = TRUE
    /\ InitRemoteState
    /\ InitOthers
    /\ last = Last("init", "none")

NextQuiz ==
    \/ \E t \in TopicInputs : SetTopic(t)
    \/ GenerateQuiz
    \/ \E ok \in BOOLEAN, quiz \in Quizzes : QuizSettled(ok, quiz)
    \/ \E answerIndex \in Options : HandleAnswerSelect(answerIndex)
    \/ QuizTimerFires
    \/ ResetQuiz

SpecQuiz == InitQuiz /\ [][NextQuiz]_vars

\* --------------------------------------------------------------- ImageUpload
\* src/unnamed/part_001 40: the largest size accepted, in bytes.
MaxImageBytes == 10 * 1024 * 1024

\* A file: the part of its MIME type before the first "/", and its size.
FileTypes == {"image", "text"}

FileSizes == {MaxImageBytes, MaxImageBytes + 1}

Files == [type : FileTypes, size : FileSizes]

FileLists == UNION {[1..n -> Files] : n \in 1..MaxBatch}

\* src/unnamed/part_001 31-47: the two tests of processFiles.
Accepted(file) == file.type = "image" /\ ~(file.size > MaxImageBytes)

RECURSIVE CountAccepted(_)
CountAccepted(files) ==
    IF files = <<>>
    THEN 0
    ELSE (IF Accepted(Head(files)) THEN 1 ELSE 0) + CountAccepted(Tail(files))

\* src/unnamed/part_001 30-71: the loop of processFiles from the file list
\* files on, with the list, the timers and the id counter built so far.
RECURSIVE ProcessLoop(_, _, _, _)
ProcessLoop(files, list, timers, created) ==
    IF files = <<>>
    THEN [list |-> list, timers |-> timers, created |-> created]
    ELSE IF Accepted(Head(files))
         THEN ProcessLoop(Tail(files),
                          Append(list, [id |-> created + 1,
                                        status |-> "uploading"]),
                          Append(timers, created + 1),
                          created + 1)
         ELSE ProcessLoop(Tail(files), list, timers, created)

\* processFiles adding every file it is given.
ProcessFiles_AcceptsAll(files) ==
    /\ filesCreated + Len(files) <= MaxFiles
    /\ uploadedFiles' =
           uploadedFiles \o
           [i \in 1..Len(files) |-> [id |-> filesCreated + i,
                                     status |-> "uploading"]]
    /\ uploadTimers' =
           uploadTimers \o [i \in 1..Len(files) |-> filesCreated + i]
    /\ filesCreated' = filesCreated + Len(files)
    /\ last' = Last("processFiles", "none")
    /\ UNCHANGED <<voiceVars, remoteVars, inputValue, transcriptVars,
                   chatVars, quizVars, aidVars, removedFiles>>

\* src/unnamed/part_001 29-72 (called by handleDrop 74-80 and
\* handleFileSelect 82-87); every accepted file gets an id of its own.
ProcessFiles(files) ==
    /\ filesCreated + CountAccepted(files) <= MaxFiles
    /\ LET done == ProcessLoop(files, uploadedFiles, uploadTimers, filesCreated)
       IN  /\ uploadedFiles' = done.list
           /\ uploadTimers' = done.timers
           /\ filesCreated' = done.created
    /\ last' = Last("processFiles", "none")
    /\ UNCHANGED <<voiceVars, remoteVars, inputValue, transcriptVars,
                   chatVars, quizVars, aidVars, removedFiles>>

\* src/unnamed/part_001 62-70: the oldest processing timer fires (all
\* timers have the same delay).
UploadTimerFires ==
    /\ uploadTimers # <<>>
    /\ uploadTimers' = Tail(uploadTimers)
    /\ uploadedFiles' =
           [i \in 1..Len(uploadedFiles) |->
               IF uploadedFiles[i].id = Head(uploadTimers)
               THEN [uploadedFiles[i] EXCEPT !.status = "success"]
               ELSE uploadedFiles[i]]
    /\ last' = LastWith("uploadTimer", "none", <<Head(uploadTimers)>>)
    /\ UNCHANGED <<voiceVars, remoteVars, inputValue, transcriptVars,
                   chatVars, quizVars, aidVars, filesCreated, removedFiles>>

\* src/unnamed/part_001 89-97 and 170: the remove button of a listed file.
RemoveFile(id) ==
    /\ \E i \in 1..Len(uploadedFiles) : uploadedFiles[i].id = id
    /\ uploadedFiles' = SelectSeq(uploadedFiles, LAMBDA f : f.id # id)
    /\ removedFiles' = removedFiles \cup {id}
    /\ last' = Last("removeFile", "none")
    /\ UNCHANGED <<voiceVars, remoteVars, inputValue, transcriptVars,
                   chatVars, quizVars, aidVars, uploadTimers, filesCreated>>

NextUpload ==
    \/ \E files \in FileLists : ProcessFiles(files)
    \/ UploadTimerFires
    \/ \E id \in 1..MaxFiles : RemoveFile(id)

SpecUpload == InitQuiz /\ [][NextUpload]_vars

\* -------------------------------------------------------- VisualAidGenerator
\* What the user types into a form field: nothing, a blank, two titles.
AidInputs == {<<>>, <<" ">>, <<"a">>, <<"b">>}

\* VisualAidGenerator.tsx 159, 223: the types the two buttons request.
AidTypes == {"drawing", "chart"}

\* VisualAidGenerator.tsx 132
SetDrawingPrompt(t) ==
    /\ drawingPrompt # t
    /\ drawingPrompt' = t
    /\ last' = Last("setDrawingPrompt", "none")
    /\ UNCHANGED <<voiceVars, remoteVars, inputValue, transcriptVars,
                   chatVars, quizVars, uploadVars, generatedAids,
                   aidIsGenerating, chartData, chartTitle, aidTimers>>

\* VisualAidGenerator.tsx 184
SetChartTitle(t) ==
    /\ chartTitle # t
    /\ chartTitle' = t
    /\ last' = Last("setChartTitle", "none")
    /\ UNCHANGED <<voiceVars, remoteVars, inputValue, transcriptVars,
                   chatVars, quizVars, uploadVars, generatedAids,
                   aidIsGenerating, drawingPrompt, chartData, aidTimers>>

\* VisualAidGenerator.tsx 216
SetChartData(t) ==
    /\ chartData # t
    /\ chartData' = t
    /\ last' = Last("setChartData", "none")
    /\ UNCHANGED <<voiceVars, remoteVars, inputValue, transcriptVars,
                   chatVars, quizVars, uploadVars, generatedAids,
                   aidIsGenerating, drawingPrompt, chartTitle, aidTimers>>

\* VisualAidGenerator.tsx 61: the title the timer callback will use.
AidTitle(type) == IF type = "drawing" THEN drawingPrompt ELSE chartTitle

\* generateVisualAid without its two validations.
GenerateVisualAid_Unvalidated(type) ==
    /\ ~aidIsGenerating
    /\ Len(generatedAids) + Len(aidTimers) < MaxAids
    /\ aidIsGenerating' = TRUE
    /\ aidTimers' = Append(aidTimers, [type |-> type, title |-> AidTitle(type)])
    /\ last' = Last("generateAid", "none")
    /\ UNCHANGED <<voiceVars, remoteVars, inputValue, transcriptVars,
                   chatVars, quizVars, uploadVars, generatedAids,
                   drawingPrompt, chartData, chartTitle>>

\* VisualAidGenerator.tsx 35-57: generateVisualAid up to setTimeout.  Both
\* buttons are disabled while isGenerating (160, 224); they are also
\* disabled while their fields are blank, and the handler is let run there
\* as well so that its own validation acts.
GenerateVisualAid(type) ==
    /\ ~aidIsGenerating
    /\ IF type = "drawing" /\ Trim(drawingPrompt) = <<>>
       THEN /\ last' = Last("aidMissingDescription", "Missing description")
            /\ UNCHANGED <<aidIsGenerating, aidTimers>>
       ELSE IF type = "chart" /\ (Trim(chartData) = <<>> \/ Trim(chartTitle) = <<>>)
            THEN /\ last' = Last("aidMissingInformation", "Missing information")
                 /\ UNCHANGED <<aidIsGenerating, aidTimers>>
            ELSE /\ Len(generatedAids) + Len(aidTimers) < MaxAids
                 /\ aidIsGenerating' = TRUE
                 /\ aidTimers' = Append(aidTimers,
                                        [type |-> type, title |-> AidTitle(type)])
                 /\ last' = Last("generateAid", "none")
    /\ UNCHANGED <<voiceVars, remoteVars, inputValue, transcriptVars,
                   chatVars, quizVars, uploadVars, generatedAids,
                   drawingPrompt, chartData, chartTitle>>

\* VisualAidGenerator.tsx 57-84: the timer callback, with the type and the
\* title of the render that armed it.
AidTimerFires ==
    /\ aidTimers # <<>>
    /\ aidTimers' = Tail(aidTimers)
    /\ generatedAids' = <<Head(aidTimers)>> \o generatedAids
    /\ aidIsGenerating' = FALSE
    /\ IF Head(aidTimers).type = "drawing"
       THEN /\ drawingPrompt' = <<>>
            /\ UNCHANGED <<chartData, chartTitle>>
       ELSE /\ chartData' = <<>>
            /\ chartTitle' = <<>>
            /\ UNCHANGED drawingPrompt
    /\ last' = Last("aidTimer", "Visual aid generated!")
    /\ UNCHANGED <<voiceVars, remoteVars, inputValue, transcriptVars,
                   chatVars, quizVars, uploadVars>>

NextAid ==
    \/ \E t \in AidInputs : SetDrawingPrompt(t)
    \/ \E t \in AidInputs : SetChartTitle(t)
    \/ \E t \in AidInputs : SetChartData(t)
    \/ \E type \in AidTypes : GenerateVisualAid(type)
    \/ AidTimerFires

SpecAid == InitQuiz /\ [][NextAid]_vars

\* ------------------------------------------------------------- the three keys
\* The features that need a key, each from the user's request to the first
\* request it sends to its service and to the end of the chat's answer:
\* the chat (sent with an image attached), the quiz generator, and the
\* recorder up to sendToAssemblyAI.
InitKeys ==
    /\ browserSupportsSpeechRecognition = TRUE
    /\ nativeSR = "present"
    /\ micPermission = "granted"
    /\ InitVoiceState
    /\ mediaRecorderSupported = TRUE
    /\ assemblyApiKey \in BOOLEAN
    /\ InitRemoteState
    /\ InitTranscriptState
    /\ geminiApiKey \in BOOLEAN
    /\ lambApiKey \in BOOLEAN
    /\ InitChatState
    /\ InitQuizState
    /\ InitPageState
    /\ last = Last("init", "none")

NextKeys ==
    \/ \E isImage \in BOOLEAN : HandleScreenshotUpload(isImage)
    \/ ImageLoaded
    \/ HandleSendMessage
    \/ \E ok \in BOOLEAN, err \in ServiceErrors : GenerateSettled(ok, err)
    \/ \E ok \in BOOLEAN : TtsSettled(ok)
    \/ \E t \in TopicInputs : SetTopic(t)
    \/ (quizPending = 0 /\ GenerateQuiz)
    \/ \E ok \in BOOLEAN : QuizSettled(ok, <<0>>)
    \/ StartRecording
    \/ RecordingGranted
    \/ StopRecording
    \/ \E c \in RecorderSlots : OnStop(c)

SpecKeys == InitKeys /\ [][NextKeys]_vars

NextRemote ==
    \/ StartRecording
    \/ RecordingGranted
    \/ RecordingDenied
    \/ \E c \in RecorderSlots, size \in {0, 1} : DataAvailable(c, size)
    \/ StopRecording
    \/ \E c \in RecorderSlots : OnStop(c)
    \/ \E c \in RecorderSlots, o \in RequestOutcomes : UploadSettled(c, o)
    \/ \E c \in RecorderSlots, o \in RequestOutcomes : CreateSettled(c, o)
    \/ \E c \in RecorderSlots, st \in PollStatuses, t \in Texts :
           PollSettled(c, st, t)
    \/ \E c \in RecorderSlots : PollThrows(c)
    \/ \E t \in Texts : TypeInput(t)

SpecRemote == InitRemote /\ [][NextRemote]_vars

\* A poll of recorder c's job that returns completed or failed.
TerminalPoll(c) ==
    \/ \E t \in Texts : PollSettled(c, "completed", t)
    \/ PollSettled(c, "failed", <<>>)

\* The recorder's sessions from startRecording to the end of
\* sendToAssemblyAI, without the typing and the chunk events.
NextRemoteJob ==
    \/ StartRecording
    \/ RecordingGranted
    \/ RecordingDenied
    \/ StopRecording
    \/ \E c \in RecorderSlots : OnStop(c)
    \/ \E c \in RecorderSlots, o \in RequestOutcomes : UploadSettled(c, o)
    \/ \E c \in RecorderSlots, o \in RequestOutcomes : CreateSettled(c, o)
    \/ \E c \in RecorderSlots, st \in PollStatuses, t \in Texts :
           PollSettled(c, st, t)
    \/ \E c \in RecorderSlots : PollThrows(c)

\* The sessions under the assumption that the service ends every job: a
\* job that is polled is eventually reported completed or failed.  The
\* loop keeps polling (setTimeout of one second, ChatInterface.tsx 255)
\* for as long as it has not left, so the terminal poll stays enabled.
SpecRemoteFair ==
    /\ InitRemote
    /\ [][NextRemoteJob]_vars
    /\ \A c \in RecorderSlots : WF_vars(TerminalPoll(c))

Next ==
    \/ HandleVoiceInput
    \/ PermissionGranted
    \/ PermissionDenied
    \/ \E k \in Slots : OnStart(k)
    \/ \E k \in Slots, reason \in ErrorReasons : OnError(k, reason)
    \/ \E k \in Slots : OnEnd(k)
    \/ \E p \in {"granted", "denied"} : SetPermission(p)

Spec == Init /\ [][Next]_vars

\* The fallback adapter with its transcript, in a browser where the
\* library is unsupported and a native constructor exists.
InitFallback ==
    /\ browserSupportsSpeechRecognition = FALSE
    /\ nativeSR = "present"
    /\ micPermission = "granted"
    /\ InitVoiceState
    /\ mediaRecorderSupported = TRUE
    /\ assemblyApiKey = TRUE
    /\ InitRemoteState
    /\ InitOthers
    /\ last = Last("init", "none")

NextFallback ==
    \/ HandleVoiceInput
    \/ \E k \in Slots : OnStart(k)
    \/ \E k \in Slots, segs \in ResultEvents : OnResult(k, segs)
    \/ \E k \in Slots, reason \in ErrorReasons : OnError(k, reason)
    \/ \E k \in Slots : OnEnd(k)
    \/ \E p \in {"granted", "denied"} : SetPermission(p)

SpecFallback == InitFallback /\ [][NextFallback]_vars

\* Both adapters with their transcripts and the input field, in a browser
\* that supports the library and has a native constructor.
InitTranscripts ==
    /\ browserSupportsSpeechRecognition = TRUE
    /\ nativeSR = "present"
    /\ micPermission = "granted"
    /\ InitVoiceState
    /\ mediaRecorderSupported = TRUE
    /\ assemblyApiKey = TRUE
    /\ InitRemoteState
    /\ InitOthers
    /\ last = Last("init", "none")

NextTranscripts ==
    \/ HandleVoiceInput
    \/ PermissionGranted
    \/ PermissionDenied
    \/ \E k \in Slots : OnStart(k)
    \/ \E k \in Slots, segs \in ResultEvents : OnResult(k, segs)
    \/ \E k \in Slots : OnEnd(k)
    \/ \E t \in PrimaryTranscripts : PrimaryResult(t)

SpecTranscripts == InitTranscripts /\ [][NextTranscripts]_vars

\* The voice toggle with the language selector.
NextLocale ==
    \/ \E code \in LanguageChoices : SetLanguage(code)
    \/ HandleVoiceInput
    \/ PermissionGranted
    \/ PermissionDenied
    \/ \E k \in Slots : OnStart(k)
    \/ \E k \in Slots : OnEnd(k)

SpecLocale == Init /\ [][NextLocale]_vars

\* ================================================================== claims
PrimaryActive == primaryListening

FallbackActive == \E k \in Slots : recognitions[k] = "listening"

\* Underlying capture sessions that run: the primary library session, every
\* native object between start() and its end event, every MediaRecorder
\* between start() and its stop event.
ActiveSessions ==
    (IF primaryListening THEN 1 ELSE 0)
    + Cardinality({k \in Slots : recognitions[k] # "free"})
    + Cardinality({c \in RecorderSlots :
                      recorders[c].state \in {"recording", "stopping"}})

StopOps == {"stopFallback", "stopPrimary"}

\* C1: the primary session and the fallback session are never both
\* active, and right after a successful start (the primary started on a
\* grant, or a native object reported onstart) one of the two is active.
C1_ExactlyOneActive ==
    /\ ~(PrimaryActive /\ FallbackActive)
    /\ last.op \in {"granted", "onstart"} => (PrimaryActive \/ FallbackActive)

\* C2: at most one capture session (primary, native object, remote
\* recorder) runs at any time.
C2_AtMostOneSession == ActiveSessions <= 1

\* C3: after the stop path of handleVoiceInput every acquired microphone
\* stream has its tracks stopped and fallbackRecognitionRef is null.
C3_StopReleasesAll ==
    last.op \in StopOps => (liveStreams = 0 /\ fallbackRecognitionRef = NULL)

\* C4: handleVoiceInput invoked while listening stops the session the
\* capture state designates (stop() on the stored native object in fallback
\* mode, stopListening otherwise), leaves isListening = isUsingFallback =
\* FALSE, and in that invocation requests no permission, acquires no stream
\* and starts neither a native object nor the primary session.
C4_StopReturnsToIdle ==
    [][(isListening /\ HandleVoiceInput) =>
          /\ ~isListening'
          /\ ~isUsingFallback'
          /\ pendingPermission' = pendingPermission
          /\ liveStreams' = liveStreams
          /\ \A k \in Slots :
                 recognitions'[k] = "starting" => recognitions[k] = "starting"
          /\ primaryListening' => primaryListening
          /\ IF isUsingFallback
             THEN /\ fallbackRecognitionRef # NULL
                  /\ recognitions'[fallbackRecognitionRef] # "listening"
             ELSE ~primaryListening']_vars

C4_Witness ==
    /\ last.op = "stopFallback"
    /\ fallbackRecognitionRef # NULL
    /\ recognitions[fallbackRecognitionRef] = "stopping"
    /\ ~isListening

\* C5: the primary adapter is started only when the library is supported
\* and a pending permission request was granted (a stream acquired); a
\* native object is constructed only when a constructor is present and
\* either the library is unsupported or a permission request was rejected.
C5_StrategyOrder ==
    [][/\ (liveStreams' # liveStreams \/ (primaryListening' /\ ~primaryListening))
            => /\ browserSupportsSpeechRecognition
               /\ micPermission = "granted"
               /\ pendingPermission' = pendingPermission - 1
               /\ liveStreams' = liveStreams + 1
       /\ (\E k \in Slots : recognitions'[k] = "starting" /\ recognitions[k] # "starting")
            => /\ nativeSR = "present"
               /\ \/ ~browserSupportsSpeechRecognition /\ ~isListening
                  \/ /\ browserSupportsSpeechRecognition
                     /\ pendingPermission' = pendingPermission - 1
                     /\ liveStreams' = liveStreams]_vars

C5_Witness ==
    /\ browserSupportsSpeechRecognition
    /\ last.op = "denied"
    /\ \E k \in Slots : recognitions[k] = "starting"

\* C6: an idle invocation that ends with neither adapter available
\* (library unsupported, or permission rejected, and no native recognition
\* in window) shows the CaptureUnsupported notice.
C6_UnsupportedNoticeShown ==
    (nativeSR = "absent" /\ last.op \in {"unsupportedPrimary", "denied"})
        => last.notice = NoticeUnsupported

C8_CompletedTextWritten ==
    (last.op = "pollCompleted" /\ last.text # <<>>) => inputValue = last.text

\* C8 amended: a job completed with text T that is not whitespace only
\* leaves the input field equal to T, untrimmed.
C8_CompletedNonBlankTextWritten ==
    (last.op = "pollCompleted" /\ HasText(last.text)) => inputValue = last.text

C8_Witness ==
    /\ last.op = "pollCompleted"
    /\ HasText(last.text)
    /\ Trim(last.text) # last.text
    /\ inputValue = last.text

\* C9: a poll that returns failed leaves the input field as it was and
\* shows the failure notice.
C9_FailedJobWritesNothing ==
    [][\A c \in RecorderSlots :
          PollSettled(c, "failed", <<>>)
              => /\ inputValue' = inputValue
                 /\ last'.notice = NoticeTranscriptionFailed]_vars

C9_Witness ==
    /\ last.op = "pollFailed"
    /\ last.notice = NoticeTranscriptionFailed
    /\ inputValue # <<>>
    /\ ~isTranscribing

\* C10: after a round trip (record, stop, upload, job completed with text
\* T) with no other recording under way, the session is idle, the input
\* field equals T and audioChunksRef is empty.
C10_RoundTripLeavesNoResidue ==
    (/\ last.op = "pollCompleted"
     /\ HasText(last.text)
     /\ acquiring = 0
     /\ \A c \in RecorderSlots : recorders[c].state \in {"free", "inactive"})
        => /\ ~isRecording
           /\ ~isTranscribing
           /\ inputValue = last.text
           /\ audioChunksRef = <<>>

\* C11: a send that passes the blank check while no Gemini key is
\* configured appends the user's message and then the configuration-error
\* message, leaves no request awaited (neither generateContent nor the
\* speech request), and ends with isLoading and isTTSLoading FALSE.
C11_MissingGeminiKeyFailsLocally ==
    [][(/\ ~geminiApiKey
        /\ ~(Trim(inputValue) = <<>> /\ ~uploadedImage)
        /\ HandleSendMessage)
          => /\ messages' = messages \o
                    <<UserMessage,
                      Message(FALSE,
                              <<"API key error: ",
                                "Gemini API key not found. Check .env file.">>,
                              FALSE)>>
             /\ chatStep' = "none"
             /\ ~isLoading'
             /\ ~isTTSLoading']_vars

C11_Witness ==
    /\ ~geminiApiKey
    /\ last.op = "sendNoKey"
    /\ Len(messages) = 3
    /\ messages[2].isUser
    /\ messages[3].content[1] = "API key error: "
    /\ chatStep = "none"
    /\ ~isLoading

RemoteFailureOps == {"uploadFailed", "uploadThrows", "createFailed",
                     "createThrows", "pollFailed", "pollThrows"}

RemoteFailed(l) ==
    \/ l.op \in RemoteFailureOps
    \/ l.op = "onstop" /\ l.notice = NoticeKeyMissing

\* No recording other than the one that just ended is being started or run.
NoOtherRecording ==
    /\ acquiring = 0
    /\ \A c \in RecorderSlots :
           recorders[c].state \in {"free", "inactive", "uploading",
                                   "creating", "polling"}

RemoteThrowOps == {"uploadThrows", "createThrows", "pollThrows"}

\* C14: a request of sendToAssemblyAI that throws (upload, job creation or
\* poll) ends with a notice shown to the user, and the request is not
\* issued again: the recorder's job is over and nothing is awaited.
C14_ExceptionIsReported ==
    last.op \in RemoteThrowOps
        => /\ last.notice # "none"
           /\ \A c \in RecorderSlots :
                  recorders[c].state \notin {"uploading", "creating", "polling"}

PollExitOps == {"pollCompleted", "pollFailed", "pollThrows"}

\* C15: a job leaves the poll loop only in a step where a poll returned
\* completed or failed, or threw (so a run of pending statuses never leaves
\* it); and when the service eventually reports completed or failed, a job
\* that is polled eventually leaves the loop with isTranscribing FALSE.
C15_PollLoopExit ==
    /\ [][\A c \in RecorderSlots :
             (recorders[c].state = "polling" /\ recorders'[c].state # "polling")
                 => last'.op \in PollExitOps]_vars
    /\ \A c \in RecorderSlots :
           (recorders[c].state = "polling")
               ~> (recorders[c].state # "polling" /\ ~isTranscribing)

C15_Witness ==
    /\ last.op \in PollExitOps
    /\ ~isTranscribing
    /\ \A c \in RecorderSlots : recorders[c].state \in {"free", "inactive"}

\* C16: without the Gemini key neither the chat nor the quiz generator has
\* a generateContent request under way (and so no speech request either);
\* without the speech key the chat has no speech request under way;
\* without the AssemblyAI key no recorder's clip is uploaded, transcribed
\* or polled.
C16_NoRequestWithoutKey ==
    /\ ~geminiApiKey => (chatStep = "none" /\ quizPending = 0)
    /\ ~lambApiKey => chatStep # "tts"
    /\ ~assemblyApiKey =>
           \A c \in RecorderSlots :
               recorders[c].state \notin {"uploading", "creating", "polling"}

C16_Witness ==
    /\ ~geminiApiKey
    /\ ~assemblyApiKey
    /\ Len(messages) = 3
    /\ messages[3].content[1] = "API key error: "
    /\ mediaRecorderRef # NULL
    /\ recorders[mediaRecorderRef].state = "inactive"
    /\ ~isRecording
    /\ last.op = "quizNoKey"

\* C17: a poll that returns completed with an empty or whitespace-only
\* text shows the user a notice of its own (not none, and not the notice
\* of a failed job) and leaves the input field as it was.
C17_EmptyResultIsSoftFailure ==
    [][\A c \in RecorderSlots, t \in Texts :
          (~HasText(t) /\ PollSettled(c, "completed", t))
              => /\ last'.notice \notin {"none", NoticeTranscriptionFailed}
                 /\ inputValue' = inputValue]_vars

\* C18: while the one fallback session listens, the transcript held after
\* a result event is the concatenation, in order, of all the final
\* segments the session has delivered so far.
C18_TranscriptAccumulates ==
    (/\ last.op = "onresult"
     /\ isListening
     /\ Cardinality({k \in Slots : recognitions[k] # "free"}) = 1)
        => fallbackTranscript = deliveredFinals

C20_EndOnlyEndsOwnSession ==
    last.op = "onend"
        => /\ ~isListening
           /\ ~isUsingFallback
           /\ fallbackRecognitionRef = NULL
           /\ ~FallbackActive

RemoteIdle == ~isRecording /\ ~isTranscribing

NoRecorderLive ==
    \A c \in RecorderSlots : recorders[c].state \in {"free", "inactive"}

\* What C22 says of the rejection and of the chunks: a rejection shows the
\* notice, clears both flags, buffers nothing and starts no recorder, and
\* when it answers a start made with no recorder in use the buffer is
\* empty; a chunk event appends its chunk exactly when the chunk is not
\* empty.
DenialAndChunks ==
    /\ RecordingDenied
          => /\ ~isRecording'
             /\ ~isTranscribing'
             /\ last'.notice = NoticeRecorderMicDenied
             /\ UNCHANGED <<audioChunksRef, recorders, mediaRecorderRef>>
             /\ (last.op = "startRecording" /\ NoRecorderLive)
                    => audioChunksRef' = <<>>
    /\ \A c \in RecorderSlots, size \in {0, 1} :
           DataAvailable(c, size)
               => audioChunksRef' = IF size > 0
                                    THEN Append(audioChunksRef, chunksDelivered + 1)
                                    ELSE audioChunksRef

\* C22 as claimed: startRecording called while idle requests the
\* microphone; a rejection reports the failure and returns to idle with
\* nothing buffered and no recorder started; after a grant every non-empty
\* chunk is appended to the buffer.
C22_StartRequestsMicrophone ==
    [][/\ (RemoteIdle /\ StartRecording) => acquiring' = acquiring + 1
       /\ DenialAndChunks]_vars

\* C22 amended: the same, for a browser in which MediaRecorder and
\* getUserMedia exist.
C22_SupportedStartRequestsMicrophone ==
    [][/\ (RemoteIdle /\ mediaRecorderSupported /\ StartRecording)
             => /\ acquiring' = acquiring + 1
                /\ isRecording'
                /\ audioChunksRef' = <<>>
       /\ DenialAndChunks]_vars

C22_Witness ==
    /\ mediaRecorderSupported
    /\ last.op = "recordingDenied"
    /\ last.notice = NoticeRecorderMicDenied
    /\ RemoteIdle
    /\ audioChunksRef = <<>>
    /\ mediaRecorderRef = NULL

IsPrefix(a, b) == Len(a) <= Len(b) /\ SubSeq(b, 1, Len(a)) = a

\* C23: while a recorder records, the buffer only grows at its end; a
\* stopRecording that finds the stored recorder recording stops it and the
\* tracks of its stream, its stop event assembles the clip from the whole
\* buffer and (with a key) enters transcribing, and a stopRecording that
\* finds the recorder no longer recording stops nothing, so that no second
\* stop event and no second clip follow.
C23_BufferAppendOnlyOneClip ==
    [][/\ (\E c \in RecorderSlots : recorders[c].state = "recording")
             => IsPrefix(audioChunksRef, audioChunksRef')
       /\ (StopRecording /\ last'.op = "stopRecording")
             => /\ recorders'[mediaRecorderRef].state = "stopping"
                /\ ~recorders'[mediaRecorderRef].tracks
       /\ (StopRecording /\ last'.op # "stopRecording")
             => recorders' = recorders
       /\ \A c \in RecorderSlots :
              (OnStop(c) /\ assemblyApiKey)
                  => /\ recorders'[c].clip = audioChunksRef
                     /\ isTranscribing'
                     /\ ~isRecording']_vars

\* A step that received a non-empty transcript from either adapter.
ResultOps == {"onresult", "primaryResult"}

\* C24: a transcript is written into the input field only by a step that
\* leaves isListening FALSE; the write overwrites the field with the
\* transcript received most recently (the one the step itself received, or
\* the one received by the step before the session ended), and both
\* accumulators are empty after the write, so that nothing is written twice.
C24_LatestTranscriptWrittenOnce ==
    [][/\ (inputValue' # inputValue)
             => (~isListening' /\ transcript' = <<>> /\ fallbackTranscript' = <<>>)
       /\ ~isListening' => (transcript' = <<>> /\ fallbackTranscript' = <<>>)
       /\ (~isListening' /\ last'.op \in ResultOps /\ last'.text # <<>>)
             => inputValue' = last'.text
       /\ (isListening /\ ~isListening' /\ last.op \in ResultOps /\ last.text # <<>>)
             => inputValue' = last.text]_vars

\* A step that constructed and started a native recognition object.
FallbackStarted ==
    \E k \in Slots : recognitions[k] # "starting" /\ recognitions'[k] = "starting"

\* Codes the map of getLocaleForLanguage does not list.
UnmappedCodes == {"xx", ""} \cup ObjectPrototypeKeys

\* C25: the step that starts the primary adapter and the step that starts
\* the fallback adapter both use getLocaleForLanguage of the language
\* selected at that step; every offered code is listed in the map and
\* yields its tag, and every code the map does not list yields "en-US".
C25_AdaptersUseSelectedLocale ==
    [][/\ PermissionGranted
             => last'.text = <<GetLocaleForLanguage(selectedLanguage)>>
       /\ FallbackStarted
             => last'.text = <<GetLocaleForLanguage(selectedLanguage)>>
       /\ \A code \in OfferedCodes :
              /\ code \in DOMAIN LocaleMap
              /\ GetLocaleForLanguage(code) = LocaleMap[code]
       /\ \A code \in UnmappedCodes :
              GetLocaleForLanguage(code) = DefaultLocale]_vars

\* C26: the message list only grows.  A send with blank input and no image
\* changes nothing; any other send appends the user's message, and the
\* invocation then appends exactly one assistant message: the reply, or one
\* error message when the key is missing or the completion call fails.  The
\* speech request appends nothing whether it succeeds or fails, and isLoading
\* is FALSE once the invocation has finished.
C26_MessagesAppendOnlyPaired ==
    [][/\ IsPrefix(messages, messages')
       /\ (HandleSendMessage /\ last'.op = "sendIgnored")
             => UNCHANGED <<messages, isLoading, isTTSLoading, chatStep,
                            inputValue, uploadedImage>>
       /\ (HandleSendMessage /\ last'.op = "send")
             => /\ messages' = Append(messages, UserMessage)
                /\ isLoading'
       /\ (HandleSendMessage /\ last'.op = "sendNoKey")
             => /\ messages' = messages \o
                       <<UserMessage,
                         Message(FALSE, ErrorContent(GeminiKeyMissing), FALSE)>>
                /\ ~isLoading'
       /\ \A ok \in BOOLEAN, err \in ServiceErrors :
              GenerateSettled(ok, err)
                  => /\ messages[Len(messages)].isUser
                     /\ messages' =
                            Append(messages,
                                   Message(FALSE,
                                           IF ok THEN <<"reply">>
                                                 ELSE ErrorContent(err),
                                           FALSE))
                     /\ ~ok => ~isLoading'
       /\ \A ok \in BOOLEAN :
              TtsSettled(ok) => (messages' = messages /\ ~isLoading')
       /\ chatStep' = "none" => ~isLoading']_vars

\* A send was answered, the speech request failed, and the list holds the
\* greeting, the user's message and the reply.
C26_Witness ==
    /\ last.op = "speechFailed"
    /\ ~isLoading
    /\ Len(messages) = 3
    /\ messages[2].isUser
    /\ messages[3] = Message(FALSE, <<"reply">>, FALSE)

\* Questions answered correctly, and incorrectly, since the last reset.
AnsweredCorrectly == {q \in QuestionIndexes : scored[q] # <<>> /\ scored[q][1]}

AnsweredIncorrectly == {q \in QuestionIndexes : scored[q] # <<>> /\ ~scored[q][1]}

\* C27: no question is scored more than once, the score is 10 for every
\* question answered correctly less 5 for every question answered
\* incorrectly, and resetQuiz and a successful generateQuiz leave it 0.
C27_EachQuestionScoredOnce ==
    [][/\ \A q \in QuestionIndexes : Len(scored'[q]) <= 1
       /\ score' = CorrectPoints * Cardinality(AnsweredCorrectly')
                   - WrongPenalty * Cardinality(AnsweredIncorrectly')
       /\ (ResetQuiz \/ last'.op = "quizReady") => score' = 0]_vars

\* C28: with questions loaded the index is one of theirs; the timer of an
\* answered question moves the index on by one unless the question was the
\* last one; showResults is TRUE only with questions loaded whose last one
\* has been answered.
C28_IndexInRangeResultsLast ==
    [][/\ questions' # <<>>
             => (0 <= currentQuestion' /\ currentQuestion' < Len(questions'))
       /\ (QuizTimerFires /\ ~showResults /\ currentQuestion < Len(questions) - 1)
             => (currentQuestion' = currentQuestion + 1 /\ ~showResults')
       /\ showResults'
             => (questions' # <<>> /\ scored'[Len(questions') - 1] # <<>>)]_vars

\* The ids of the files listed, in order.
ListedIds == [i \in 1..Len(uploadedFiles) |-> uploadedFiles[i].id]

\* The ids given to accepted files so far, without those removed.
KeptIds ==
    SelectSeq([i \in 1..filesCreated |-> i], LAMBDA id : id \notin removedFiles)

\* The files of a list that are images of at most 10 MB.
ImagesWithinLimit(files) ==
    {i \in 1..Len(files) :
        files[i].type = "image" /\ files[i].size <= MaxImageBytes}

\* C29: the list holds exactly the accepted files that were not removed, in
\* the order they were accepted; processFiles adds one entry, with status
\* uploading, per image of at most 10 MB and none for any other file; the
\* status of a listed file changes only from uploading to success; a
\* removed file is never listed again.
C29_ListHoldsAcceptedNotRemoved ==
    [][/\ ListedIds' = KeptIds'
       /\ \A files \in FileLists :
              ProcessFiles(files)
                  => /\ Len(uploadedFiles') =
                            Len(uploadedFiles) + Cardinality(ImagesWithinLimit(files))
                     /\ SubSeq(uploadedFiles', 1, Len(uploadedFiles)) = uploadedFiles
                     /\ \A i \in (Len(uploadedFiles) + 1)..Len(uploadedFiles') :
                            uploadedFiles'[i].status = "uploading"
       /\ \A i \in 1..Len(uploadedFiles), j \in 1..Len(uploadedFiles') :
              uploadedFiles[i].id = uploadedFiles'[j].id
                  => \/ uploadedFiles'[j].status = uploadedFiles[i].status
                     \/ /\ uploadedFiles[i].status = "uploading"
                        /\ uploadedFiles'[j].status = "success"
       /\ \A j \in 1..Len(uploadedFiles') :
              uploadedFiles'[j].id \notin removedFiles]_vars

\* The timer of a file fired after the file had been removed, while another
\* file is listed as processed.
C29_Witness ==
    /\ last.op = "uploadTimer"
    /\ last.text[1] \in removedFiles
    /\ \E i \in 1..Len(uploadedFiles) : uploadedFiles[i].status = "success"

\* A request the claim calls invalid.
FailsValidation(type) ==
    \/ type = "drawing" /\ Trim(drawingPrompt) = <<>>
    \/ type = "chart" /\ (Trim(chartTitle) = <<>> \/ Trim(chartData) = <<>>)

\* C30: a generate request that fails validation adds no aid, arms no
\* timer and leaves isGenerating FALSE; an accepted request arms one timer
\* with the title the form holds at the request; only a timer adds an aid,
\* exactly one, at the front, with that title, and it leaves isGenerating
\* FALSE and the fields of the request's form empty.
C30_OneAidPerAcceptedRequest ==
    [][/\ \A type \in AidTypes :
              GenerateVisualAid(type)
                  => /\ generatedAids' = generatedAids
                     /\ IF FailsValidation(type)
                        THEN ~aidIsGenerating' /\ aidTimers' = aidTimers
                        ELSE /\ aidIsGenerating'
                             /\ aidTimers' =
                                    <<[type |-> type,
                                       title |-> IF type = "drawing"
                                                 THEN drawingPrompt
                                                 ELSE chartTitle]>>
       /\ AidTimerFires
             => /\ generatedAids' = <<Head(aidTimers)>> \o generatedAids
                /\ ~aidIsGenerating'
                /\ aidTimers' = <<>>
                /\ IF Head(aidTimers).type = "drawing"
                   THEN drawingPrompt' = <<>>
                   ELSE chartData' = <<>> /\ chartTitle' = <<>>
       /\ generatedAids' # generatedAids => AidTimerFires]_vars

\* Two requests were accepted and their timers fired: the chart requested
\* last is at the front, the drawing behind it, each with the title of its
\* request.
C30_Witness ==
    /\ last.op = "aidTimer"
    /\ ~aidIsGenerating
    /\ generatedAids = <<[type |-> "chart", title |-> <<"b">>],
                         [type |-> "drawing", title |-> <<"a">>]>>

====
